---------------------------- MODULE Spec2Model ----------------------------
(***************************************************************************)
(* A model of the HFSS microstrip harness (src/hfss_ms.py): the HFSSMS     *)
(* object built by __init__, the default filling of conductor layer       *)
(* records (fill_missing_vals) and run_simulation, which hands datasets    *)
(* and impedance boundaries to the external solver and reports an outcome. *)
(*                                                                         *)
(* Python values are modelled as follows.  A layer record is a dict: a     *)
(* function from the keys it holds to values.  Values of a layer record    *)
(* are tokens (strings): "58e6" is 58e6, "None" is None, "-1" a negative   *)
(* number.  Dicts live in a heap and lists hold addresses, so that two     *)
(* lists (or two entries of one list) may refer to the same dict, as in    *)
(* Python.  Numeric arrays (f, er, ...) are sequences of integers;         *)
(* frequencies are in Hz.  The conversions gamma2ereff and ereff2gamma of   *)
(* the object and LLmodel of the example (src/example_microstrip.py) are   *)
(* operators over complex numbers with integer parts.                       *)
(***************************************************************************)
EXTENDS Integers, Sequences, FiniteSets, TLC

VARIABLES
    \* the HFSSMS object and what the caller owns
    self_f,     \* self.f: the frequency grid
    self_er,    \* self.er
    self_etand, \* self.etand
    self_mur,   \* self.mur
    self_mutand,\* self.mutand
    use_pec,    \* self.use_pec
    conductor,  \* face -> the list given for self.conductor_<face> (NoneRef: None)
    lists,      \* list object -> the addresses it holds, in order
    heap,       \* address -> contents of the dict at that address
    objtype,    \* address -> "dict" | "tuple": the Python type of the object
    gamma,      \* self.gamma: [set |-> whether the attribute exists, val |-> its value]
    Z0,         \* self.Z0, likewise
    Zs_sig_top, \* self.Zs_sig_top, likewise
    \* one call of run_simulation
    pc,         \* where the call is
    closs_aedt_at_finish,   \* its argument
    solution_freq_arg,      \* its argument solution_freq: [given |-> FALSE] is None
    solution_freq,          \* its local solution_freq
    log,        \* the calls made to the solver (pyaedt) in this run, in order
    engine,     \* the calls made to surfz.surface_impedance in this run, in order
    filled,     \* the faces whose stack was handed to fill_missing_vals in this run
    passed,     \* every (list, layer values) handed to surface_impedance in any run
    raised,     \* the exception raised inside the try block: none | validation | solver
    result,     \* what the caller gets: none | True | False | hfss | exception
    budget,     \* how many more calls of run_simulation the caller makes
    runs,       \* how many calls of run_simulation were started
    reported,   \* every (raised, closs_aedt_at_finish, result) a finished call reported
    \* default filling on its own
    required,   \* fill_missing_vals' argument required_keys
    defaults,   \* fill_missing_vals' argument default_values
    stack,      \* fill_missing_vals' argument material_properties (addresses)
    heap0,      \* the heap before the first call of fill_missing_vals
    heap1,      \* the heap after the first call of fill_missing_vals
    returned,   \* what the last call of fill_missing_vals returned
    ncalls,     \* how often fill_missing_vals was applied to the stack
    \* the formulas of the harness and of the example on their own
    conv,       \* gamma2ereff and ereff2gamma: their arguments and what they gave
    ll          \* LLmodel: its arguments and what it gave

fillvars == <<heap, objtype, required, defaults, stack, heap0, heap1, returned, ncalls>>

objvars == <<self_f, self_er, self_etand, self_mur, self_mutand, use_pec, conductor,
             lists, gamma, Z0, Zs_sig_top>>

runvars == <<pc, closs_aedt_at_finish, solution_freq_arg, solution_freq, log, engine, filled,
             passed, raised,
             result, budget, runs, reported>>

purevars == <<conv, ll>>

vars == <<objvars, runvars, fillvars, purevars>>

----------------------------------------------------------------------------
(* Bounds *)

\* the longest conductor stack (number of layers of a list), and the number
\* of dict objects the caller owns
MaxLayers == 2

----------------------------------------------------------------------------
(* Python dicts *)

\* d.get(key, None)
DictGet(d, key) == IF key \in DOMAIN d THEN d[key] ELSE "None"

\* d[key] = v
DictSet(d, key, v) == [x \in DOMAIN d \cup {key} |-> IF x = key THEN v ELSE d[x]]

EmptyDict == [x \in {} |-> "None"]

Range(s) == {s[i] : i \in DOMAIN s}

Reverse(s) == [i \in 1..Len(s) |-> s[Len(s) + 1 - i]]

\* addresses are handed out in the order of first use: the j-th new address
\* of a list is j
InOrder(s) == \A i \in DOMAIN s : s[i] = 1 \/ \E j \in 1..(i-1) : s[j] = s[i] - 1

Addr == 1..MaxLayers

\* every list of at most MaxLayers addresses
Stacks == UNION {[1..n -> Addr] : n \in 0..MaxLayers}

----------------------------------------------------------------------------
(* run_simulation's literals *)

required_keys == <<"sigma", "mur", "er", "Rrms", "boundary_loc", "distribution">>

default_values ==
    [sigma |-> "58e6", mur |-> "1", er |-> "None", Rrms |-> "0",
     boundary_loc |-> "0", distribution |-> "norm"]

----------------------------------------------------------------------------
(* fill_missing_vals *)

\* a variant that takes a key whose value is None, 0 or False for missing:
\* if not material.get(key)
FillKey_falsy(default_values_, material, key) ==
    IF DictGet(material, key) \in {"None", "0", "False"}
    THEN DictSet(material, key, DictGet(default_values_, key))
    ELSE material

\* a variant that does not look the default up: material[key] = None
FillKey_nodefault(default_values_, material, key) ==
    IF key \notin DOMAIN material
    THEN DictSet(material, key, "None")
    ELSE material

\* a variant that also brings a roughness the layer has from micrometres to
\* metres, in place: material['Rrms'] *= 1e-6
FillKey_rescale(default_values_, material, key) ==
    IF key \notin DOMAIN material
    THEN DictSet(material, key, DictGet(default_values_, key))
    ELSE IF key = "Rrms" /\ material[key] \in {"1e-6", "1e-12"}
    THEN DictSet(material, key, IF material[key] = "1e-6" THEN "1e-12" ELSE "1e-18")
    ELSE material

\* the body of the inner loop: if key not in material: material[key] = ...
FillKey(default_values_, material, key) ==
    IF key \notin DOMAIN material
    THEN DictSet(material, key, DictGet(default_values_, key))
    ELSE material

\* a variant that leaves the inner loop after the first key it fills
RECURSIVE FillKeys_break(_, _, _, _)
FillKeys_break(required_keys_, default_values_, material, k) ==
    IF k > Len(required_keys_) THEN material
    ELSE IF required_keys_[k] \notin DOMAIN material
         THEN FillKey(default_values_, material, required_keys_[k])
         ELSE FillKeys_break(required_keys_, default_values_, material, k + 1)

\* the inner loop, for key in required_keys, from the k-th key on
RECURSIVE FillKeys(_, _, _, _)
FillKeys(required_keys_, default_values_, material, k) ==
    IF k > Len(required_keys_) THEN material
    ELSE FillKeys(required_keys_, default_values_,
                  FillKey(default_values_, material, required_keys_[k]), k + 1)

\* the outer loop, for material in material_properties, from the i-th entry
\* on.  The dicts are changed in place (in the heap hp).  An entry that is
\* no dict (a tuple) has no item assignment: material[key] = ... raises
\* TypeError, after the entries before it were filled.
RECURSIVE FillLayers(_, _, _, _, _, _)
FillLayers(required_keys_, default_values_, hp, ty, material_properties, i) ==
    IF i > Len(material_properties) THEN [heap |-> hp, error |-> FALSE]
    ELSE LET a == material_properties[i] IN
         IF ty[a] # "dict"
         THEN IF Len(required_keys_) > 0
              THEN [heap |-> hp, error |-> TRUE]
              ELSE FillLayers(required_keys_, default_values_, hp, ty,
                              material_properties, i + 1)
         ELSE FillLayers(required_keys_, default_values_,
                         [hp EXCEPT ![a] = FillKeys(required_keys_, default_values_, hp[a], 1)],
                         ty, material_properties, i + 1)

\* fill_missing_vals(required_keys, default_values, material_properties):
\* the heap after the call, whether it raised, and the list it returns,
\* which is the list it was given (return material_properties)
fill_missing_vals(required_keys_, default_values_, hp, ty, material_properties) ==
    LET r == FillLayers(required_keys_, default_values_, hp, ty, material_properties, 1)
    IN  [heap |-> r.heap, error |-> r.error, result |-> material_properties]

----------------------------------------------------------------------------
(* numpy arrays and their broadcasting *)

\* a variant that takes the first element for the largest
MaxOf_first(s) == s[1]

\* self.f.max()
MaxOf(s) == CHOOSE m \in Range(s) : \A x \in Range(s) : x <= m

\* whether two 1-d arrays can be combined elementwise
Broadcastable(a, b) == Len(a) = Len(b) \/ Len(a) = 1 \/ Len(b) = 1

\* the length of a combination of two 1-d arrays
BLen(a, b) == IF Len(a) >= Len(b) THEN Len(a) ELSE Len(b)

\* a*b, elementwise, an array of one element being stretched
BMul(a, b) ==
    [i \in 1..BLen(a, b) |-> a[IF Len(a) = 1 THEN 1 ELSE i] * b[IF Len(b) = 1 THEN 1 ELSE i]]

\* np.atleast_1d(x) of an input: a number becomes an array of one element.
\* An input is [scalar |-> whether it is a number, v |-> its elements].
atleast_1d(x) == x.v

\* np.ones_like(a)
ones_like(a) == [i \in 1..Len(a) |-> 1]

\* x*np.ones_like(self.f) for an input x: a number is multiplied into every
\* element, an array is broadcast
TimesOnes(x, f) == BMul(x.v, ones_like(f))

\* a*(1 - 1j*t): the complex array with real part a and imaginary part -a*t
ComplexLossy(a, t) ==
    [i \in 1..BLen(a, t) |->
        [re |-> a[IF Len(a) = 1 THEN 1 ELSE i],
         im |-> 0 - a[IF Len(a) = 1 THEN 1 ELSE i] * t[IF Len(t) = 1 THEN 1 ELSE i]]]

\* 1 - 0j, shown as an array of one element
ComplexOne == <<[re |-> 1, im |-> 0]>>

----------------------------------------------------------------------------
(* The solver (pyaedt) as run_simulation sees it: every call may raise *)

\* one call made to the solver: what was called, on what (name), with which
\* x and y data; for an impedance boundary the sheet and the two datasets it
\* refers to; and whether the call returned (ok) or raised
Call(op, name, x, y) ==
    [op |-> op, name |-> name, x |-> x, y |-> y, sheet |-> "", re |-> "", im |-> "",
     ok |-> TRUE]

Plain(op, name) == Call(op, name, <<>>, <<>>)

\* assign_impedance_to_sheet(sheet, sourcename=name, resistance='pwl(re, Freq)',
\* reactance='pwl(im, Freq)')
Boundary(sheet, name, re, im) ==
    [Plain("assign_impedance_to_sheet", name) EXCEPT !.sheet = sheet, !.re = re, !.im = im]

\* the call c, raising
Failed(c) == [c EXCEPT !.ok = FALSE]

\* a variant in which a call that raised is made again
Attempt_retry(cs) ==
    {[log |-> cs, ok |-> TRUE]}
    \cup {[log |-> Append(SubSeq(cs, 1, j - 1), Failed(cs[j])) \o SubSeq(cs, j, Len(cs)),
           ok |-> TRUE] : j \in 1..Len(cs)}

\* what may come of making the calls cs in order: all return, or the j-th
\* raises after the ones before it returned
Attempt(cs) ==
    {[log |-> cs, ok |-> TRUE]}
    \cup {[log |-> Append(SubSeq(cs, 1, j - 1), Failed(cs[j])), ok |-> FALSE] : j \in 1..Len(cs)}

\* close_project, delete_project, close_desktop
CleanupCalls ==
    <<Plain("close_project", ""), Plain("delete_project", ""), Plain("close_desktop", "")>>

----------------------------------------------------------------------------
(* surfz.surface_impedance, which is not part of the sources: its contract  *)

KnownDistributions == {"norm"}

Negative(v) == v \in {"-1"}

\* a variant that takes every distribution tag
SurfzError_anytag(a) ==
    IF \/ Len(a.Rrms) # Len(a.layers)
       \/ Len(a.boundary_loc) # Len(a.layers)
       \/ Len(a.distribution) # Len(a.layers)
    THEN "ConfigurationError"
    ELSE IF \/ \E i \in DOMAIN a.f : a.f[i] < 0
            \/ \E i \in DOMAIN a.Rrms : Negative(a.Rrms[i])
            \/ \E i \in DOMAIN a.layers : Negative(DictGet(a.layers[i], "sigma"))
    THEN "ValueError"
    ELSE "none"

\* the error surface_impedance raises for its arguments, "none" if it
\* accepts them
SurfzError(a) ==
    IF \/ Len(a.Rrms) # Len(a.layers)
       \/ Len(a.boundary_loc) # Len(a.layers)
       \/ Len(a.distribution) # Len(a.layers)
    THEN "ConfigurationError"
    ELSE IF \/ \E i \in DOMAIN a.f : a.f[i] < 0
            \/ \E i \in DOMAIN a.Rrms : Negative(a.Rrms[i])
            \/ \E i \in DOMAIN a.layers : Negative(DictGet(a.layers[i], "sigma"))
    THEN "ValueError"
    ELSE IF \E i \in DOMAIN a.distribution : a.distribution[i] \notin KnownDistributions
    THEN "UnsupportedOptionError"
    ELSE "none"

\* Zs(f): one complex value per point of the frequency grid it was given
SurfzValue(a) == [i \in 1..Len(a.f) |-> [freq |-> a.f[i], of |-> "Zs"]]

\* the outcomes of surface_impedance(f, material_properties, Rrms, ...).  The
\* contract says nothing of a stack without a conductor layer: either outcome
surface_impedance(a) ==
    IF SurfzError(a) # "none" THEN {[error |-> SurfzError(a), Zs |-> <<>>]}
    ELSE IF Len(a.layers) = 0
    THEN {[error |-> "ConfigurationError", Zs |-> <<>>], [error |-> "none", Zs |-> SurfzValue(a)]}
    ELSE {[error |-> "none", Zs |-> SurfzValue(a)]}

----------------------------------------------------------------------------
(* run_simulation *)

NoneRef == 0

ListId == {1, 2}

Faces == {"gnd_top", "sig_top", "sig_bottom", "sig_side"}

\* what follows a face's block: the four blocks in the order of the code
AfterFace ==
    [gnd_top |-> "sig_top", sig_top |-> "sig_bottom", sig_bottom |-> "sig_side",
     sig_side |-> "port"]

\* a variant in which the block of the bottom of the line kept the air of the
\* block before it
HalfSpace_air_below ==
    [gnd_top |-> "dielectric", sig_top |-> "air", sig_bottom |-> "air",
     sig_side |-> "air"]

\* the half-space of each block: the dielectric or air
HalfSpace ==
    [gnd_top |-> "dielectric", sig_top |-> "air", sig_bottom |-> "dielectric",
     sig_side |-> "air"]

\* the names each block gives its two datasets and its boundary
RealName ==
    [gnd_top |-> "Zs_gnd_top_real", sig_top |-> "Zs_sig_top_real",
     sig_bottom |-> "Zs_sig_bottom_real", sig_side |-> "Zs_sig_side_real"]

\* a variant in which the last block kept the name of the block it was
\* copied from
ImagName_copy ==
    [gnd_top |-> "Zs_gnd_top_imag", sig_top |-> "Zs_sig_top_imag",
     sig_bottom |-> "Zs_sig_bottom_imag", sig_side |-> "Zs_sig_top_imag"]

ImagName ==
    [gnd_top |-> "Zs_gnd_top_imag", sig_top |-> "Zs_sig_top_imag",
     sig_bottom |-> "Zs_sig_bottom_imag", sig_side |-> "Zs_sig_side_imag"]

SourceName ==
    [gnd_top |-> "GND-TOP", sig_top |-> "SIG-TOP", sig_bottom |-> "SIG-BOT",
     sig_side |-> "SIG-SID"]

\* the sheet each block assigns its boundary to
Sheet ==
    [gnd_top |-> "gnd.top_face_y", sig_top |-> "sig.top_face_y",
     sig_bottom |-> "sig.bottom_face_y", sig_side |-> "sig.top_face_x"]

\* the stack each block reads
StackOf(face) == conductor[face]

Unset == [set |-> FALSE, val |-> <<>>]

Value(v) == [set |-> TRUE, val |-> v]

\* Zs.real.tolist() and Zs.imag.tolist()
RealPart(Zs) == [i \in 1..Len(Zs) |-> [freq |-> Zs[i].freq, of |-> "Re Zs"]]
ImagPart(Zs) == [i \in 1..Len(Zs) |-> [freq |-> Zs[i].freq, of |-> "Im Zs"]]

\* a variant of the except block that returns False also when the session is
\* kept
Except_false(lg, kind) ==
    /\ raised' = kind
    /\ pc' = "returned"
    /\ IF closs_aedt_at_finish
       THEN \E r \in Attempt(CleanupCalls) :
                /\ log' = lg \o r.log
                /\ result' = IF r.ok THEN "False" ELSE "exception"
       ELSE /\ log' = lg
            /\ result' = "False"
    /\ reported' = reported \cup
           {[raised |-> kind, closs |-> closs_aedt_at_finish, result |-> result']}

\* the except block: with closs_aedt_at_finish the project is closed and
\* deleted and the desktop closed, and False returned; else hfss is returned.
\* lg is the log when the exception reaches the block.  A cleanup call that
\* raises ends the call of run_simulation with that exception.
Except(lg, kind) ==
    /\ raised' = kind
    /\ pc' = "returned"
    /\ IF closs_aedt_at_finish
       THEN \E r \in Attempt(CleanupCalls) :
                /\ log' = lg \o r.log
                /\ result' = IF r.ok THEN "False" ELSE "exception"
       ELSE /\ log' = lg
            /\ result' = "hfss"
    /\ reported' = reported \cup
           {[raised |-> kind, closs |-> closs_aedt_at_finish, result |-> result']}

\* a step of the try block that only makes the solver calls cs
SolverStep(cs, next) ==
    \E r \in Attempt(cs) :
        IF r.ok
        THEN /\ log' = log \o r.log
             /\ pc' = next
             /\ UNCHANGED <<raised, result, reported>>
        ELSE Except(log \o r.log, "solver")

\* run_simulation(closs_aedt_at_finish, solution_freq, ...) up to the try
\* block: solution_freq and the pyaedt.Hfss session.  sf is the argument
\* solution_freq: [given |-> FALSE] is None.
RunSimulation(closs, sf) ==
    /\ pc \in {"idle", "returned"}
    /\ budget > 0
    /\ budget' = budget - 1
    /\ runs' = runs + 1
    /\ closs_aedt_at_finish' = closs
    /\ solution_freq_arg' = sf
    /\ solution_freq' = IF sf.given THEN sf.v ELSE (MaxOf(self_f) * 8) \div 10
    /\ engine' = <<>>
    /\ filled' = {}
    /\ \E r \in Attempt(<<Plain("Hfss", "microstrip")>>) :
          /\ log' = r.log
          /\ IF r.ok
             THEN /\ pc' = "dielectric"
                  /\ raised' = "none"
                  /\ result' = "none"
                  /\ reported' = reported
             ELSE /\ pc' = "returned"
                  /\ raised' = "none"
                  /\ result' = "exception"
                  /\ reported' = reported \cup
                        {[raised |-> "before try", closs |-> closs, result |-> "exception"]}
    /\ UNCHANGED <<objvars, fillvars, purevars, passed>>

\* the datasets of the dielectric and the material made of them
CreateDielectric ==
    /\ pc = "dielectric"
    /\ SolverStep(<<Call("create_dataset", "er", self_f, self_er),
                    Call("create_dataset", "etand", self_f, self_etand),
                    Call("create_dataset", "mur", self_f, self_mur),
                    Call("create_dataset", "mutand", self_f, self_mutand),
                    Plain("add_material", "my_dielectric")>>, "geometry")
    /\ UNCHANGED <<objvars, fillvars, purevars, closs_aedt_at_finish, solution_freq_arg,
                   solution_freq, engine,
                   filled, passed, budget, runs>>

\* the substrate, the signal line and the ground plane
DrawGeometry ==
    /\ pc = "geometry"
    /\ SolverStep(<<Plain("create_box", "SUB"), Plain("create_box", "SIG"),
                    Plain("create_box", "GND")>>, "common")
    /\ UNCHANGED <<objvars, fillvars, purevars, closs_aedt_at_finish, solution_freq_arg,
                   solution_freq, engine,
                   filled, passed, budget, runs>>

\* a variant that enters the four blocks whatever use_pec is
SkipBoundaries_never == FALSE

\* whether the four blocks are skipped: if not self.use_pec
SkipBoundaries == use_pec

\* if not self.use_pec: the values common to all boundaries.  The products
\* self.mur*(1 - 1j*self.mutand) and self.er*(1 - 1j*self.etand) raise
\* ValueError when the two arrays cannot be broadcast.
BoundaryCommon ==
    /\ pc = "common"
    /\ IF SkipBoundaries
       THEN /\ pc' = "port"
            /\ UNCHANGED <<log, raised, result, reported>>
       ELSE IF Broadcastable(self_mur, self_mutand) /\ Broadcastable(self_er, self_etand)
       THEN /\ pc' = "gnd_top"
            /\ UNCHANGED <<log, raised, result, reported>>
       ELSE Except(log, "validation")
    /\ UNCHANGED <<objvars, fillvars, purevars, closs_aedt_at_finish, solution_freq_arg,
                   solution_freq, engine,
                   filled, passed, budget, runs>>

\* the half-space layer of a block: {'mur': ..., 'er': ...}
HalfSpaceLayer(face) ==
    IF HalfSpace[face] = "dielectric"
    THEN [mur |-> ComplexLossy(self_mur, self_mutand), er |-> ComplexLossy(self_er, self_etand)]
    ELSE [mur |-> ComplexOne, er |-> ComplexOne]

\* the arguments a block hands to surface_impedance, read from the heap hp
\* after the stack cp was filled: material_properties is the half-space
\* followed by the layers.  The field error is for what the call raised.
SurfzArgs(face, hp, cp) ==
    [face |-> face,
     error |-> "none",
     f |-> self_f,
     halfspace |-> HalfSpaceLayer(face),
     layers |-> [i \in 1..Len(cp) |-> hp[cp[i]]],
     Rrms |-> [i \in 1..Len(cp) |-> hp[cp[i]]["Rrms"]],
     boundary_loc |-> [i \in 1..Len(cp) |-> hp[cp[i]]["boundary_loc"]],
     distribution |-> [i \in 1..Len(cp) |-> hp[cp[i]]["distribution"]]]

\* what of the arguments comes from the list (the list object l) of a face
Passed(l, args) ==
    [list |-> l, layers |-> args.layers, Rrms |-> args.Rrms,
     boundary_loc |-> args.boundary_loc, distribution |-> args.distribution]

\* whether a block is entered: if self.conductor_<face> is not None
Entered(face) == StackOf(face) # NoneRef

\* one of the four blocks: fill the stack, compute Zs, create its two
\* datasets and assign the impedance boundary
AssignBoundary(face) ==
    /\ pc = face
    /\ IF ~Entered(face)
       THEN /\ pc' = AfterFace[face]
            /\ UNCHANGED <<heap, engine, filled, passed, Zs_sig_top, log, raised, result,
                           reported>>
       ELSE LET fill == fill_missing_vals(required_keys, default_values, heap, objtype,
                                          lists[StackOf(face)])
            IN  /\ heap' = fill.heap
                /\ filled' = filled \cup {face}
                /\ IF fill.error
                   THEN /\ Except(log, "validation")
                        /\ UNCHANGED <<engine, passed, Zs_sig_top>>
                   ELSE LET args == SurfzArgs(face, fill.heap, fill.result) IN
                        /\ \E z \in surface_impedance(args) :
                              /\ engine' = Append(engine, [args EXCEPT !.error = z.error])
                              /\ passed' = passed \cup {Passed(StackOf(face), args)}
                              /\ IF z.error # "none"
                                 THEN /\ Except(log, "validation")
                                      /\ UNCHANGED Zs_sig_top
                                 ELSE /\ Zs_sig_top' = IF face = "sig_top" THEN Value(z.Zs)
                                                       ELSE Zs_sig_top
                                      /\ SolverStep(
                                           <<Call("create_dataset", RealName[face], self_f,
                                                  RealPart(z.Zs)),
                                             Call("create_dataset", ImagName[face], self_f,
                                                  ImagPart(z.Zs)),
                                             Boundary(Sheet[face], SourceName[face],
                                                      RealName[face], ImagName[face])>>,
                                           AfterFace[face])
    /\ UNCHANGED <<self_f, self_er, self_etand, self_mur, self_mutand, use_pec, conductor,
                   lists, gamma, Z0, objtype, required, defaults, stack, heap0, heap1,
                   returned, ncalls, purevars, closs_aedt_at_finish, solution_freq_arg,
                   solution_freq, budget, runs>>

\* the port, the air region and its boundaries
DrawPort ==
    /\ pc = "port"
    /\ SolverStep(<<Plain("create_polyline", "PORT"), Plain("wave_port", "P1"),
                    Plain("create_region", "AIRBOX"), Plain("assign_symmetry", "Symmetry"),
                    Plain("assign_radiation_boundary_to_objects", "Radiation")>>, "setup1")
    /\ UNCHANGED <<objvars, fillvars, purevars, closs_aedt_at_finish, solution_freq_arg,
                   solution_freq, engine,
                   filled, passed, budget, runs>>

\* setup1: the adaptive mesh at solution_freq (handed on in GHz as a number;
\* the model states it in Hz)
Setup1 ==
    /\ pc = "setup1"
    /\ SolverStep(<<Plain("create_setup", "setup1"),
                    Call("enable_adaptive_setup_single", "setup1", <<solution_freq>>, <<>>),
                    Plain("analyze", "setup1")>>, "setup2")
    /\ UNCHANGED <<objvars, fillvars, purevars, closs_aedt_at_finish, solution_freq_arg,
                   solution_freq, engine,
                   filled, passed, budget, runs>>

\* f'{solution_freq*1e-9:.6f}GHz' of a frequency in Hz, as the frequency in
\* Hz the text stands for: six decimals of a GHz are whole kHz, to which the
\* value is rounded (a value half way to the even one)
Format6GHz(x) ==
    LET q == x \div 1000
        r == x % 1000
    IN  IF 2 * r < 1000 THEN 1000 * q
        ELSE IF 2 * r > 1000 THEN 1000 * (q + 1)
        ELSE IF q % 2 = 0 THEN 1000 * q ELSE 1000 * (q + 1)

\* setup2, whose frequency is solution_freq as a text in GHz, linked to the
\* mesh of setup1, and its sweep over the grid
Setup2 ==
    /\ pc = "setup2"
    /\ SolverStep(<<Call("create_setup", "setup2", <<Format6GHz(solution_freq)>>, <<>>),
                    Plain("add_mesh_link", "setup2"),
                    Call("create_single_point_sweep", "Single", self_f, <<>>)>>,
                  "analyze")
    /\ UNCHANGED <<objvars, fillvars, purevars, closs_aedt_at_finish, solution_freq_arg,
                   solution_freq, engine,
                   filled, passed, budget, runs>>

\* setup2.analyze()
Analyze ==
    /\ pc = "analyze"
    /\ SolverStep(<<Plain("analyze", "setup2")>>, "solution")
    /\ UNCHANGED <<objvars, fillvars, purevars, closs_aedt_at_finish, solution_freq_arg,
                   solution_freq, engine,
                   filled, passed, budget, runs>>

\* what the solver returns for an expression: one value per point of the
\* sweep, in the order of the sweep
SolutionData(expression, freq, run) ==
    [i \in 1..Len(freq) |-> [freq |-> freq[i], of |-> expression, run |-> run]]

\* the calls that read the solution: get_solution_data, then the real and
\* imaginary parts of Gamma(P1), of which self.gamma is made, then those of
\* Zo(P1), of which self.Z0 is made
SolutionCalls ==
    <<Plain("get_solution_data", "setup2 : Single"),
      Plain("data_real", "Gamma(P1)"), Plain("data_imag", "Gamma(P1)"),
      Plain("data_real", "Zo(P1)"), Plain("data_imag", "Zo(P1)")>>

\* how many of the calls of an attempt returned
Completed(r) == IF r.ok THEN Len(r.log) ELSE Len(r.log) - 1

\* get_solution_data, and self.gamma and then self.Z0 made of it: self.gamma
\* is assigned when its two calls have returned, before those of self.Z0 are
\* made
GetSolution ==
    /\ pc = "solution"
    /\ \E r \in Attempt(SolutionCalls) :
          /\ gamma' = IF Completed(r) >= 3
                      THEN Value(SolutionData("Gamma(P1)", self_f, runs)) ELSE gamma
          /\ Z0' = IF Completed(r) >= 5
                   THEN Value(SolutionData("Zo(P1)", self_f, runs)) ELSE Z0
          /\ IF r.ok
             THEN /\ log' = log \o r.log
                  /\ pc' = "finish"
                  /\ UNCHANGED <<raised, result, reported>>
             ELSE Except(log \o r.log, "solver")
    /\ UNCHANGED <<self_f, self_er, self_etand, self_mur, self_mutand, use_pec, conductor,
                   lists, Zs_sig_top, fillvars, purevars, closs_aedt_at_finish,
                   solution_freq_arg, solution_freq, engine, filled, passed, budget, runs>>

\* the end of the try block: close and return True, or return hfss.  The
\* three calls are inside the try block: one that raises is caught
Finish ==
    /\ pc = "finish"
    /\ IF closs_aedt_at_finish
       THEN \E r \in Attempt(CleanupCalls) :
               IF r.ok
               THEN /\ log' = log \o r.log
                    /\ result' = "True"
                    /\ pc' = "returned"
                    /\ raised' = raised
                    /\ reported' = reported \cup
                          {[raised |-> "none", closs |-> TRUE, result |-> "True"]}
               ELSE Except(log \o r.log, "solver")
       ELSE /\ log' = log
            /\ result' = "hfss"
            /\ pc' = "returned"
            /\ raised' = raised
            /\ reported' = reported \cup
                  {[raised |-> "none", closs |-> FALSE, result |-> "hfss"]}
    /\ UNCHANGED <<objvars, fillvars, purevars, closs_aedt_at_finish, solution_freq_arg,
                   solution_freq, engine,
                   filled, passed, budget, runs>>

\* solution_freq of the older harness (hfss_2d_ms.py):
\* self.f[-1]*0.8 if solution_freq is None else solution_freq
solution_freq_2d(f, sf) == IF sf.given THEN sf.v ELSE (f[Len(f)] * 8) \div 10

\* the values of the argument solution_freq the caller may give
SolutionFreqs == {[given |-> FALSE, v |-> 0], [given |-> TRUE, v |-> 1700]}

Next ==
    \/ \E closs \in BOOLEAN, sf \in SolutionFreqs : RunSimulation(closs, sf)
    \/ CreateDielectric
    \/ DrawGeometry
    \/ BoundaryCommon
    \/ \E face \in Faces : AssignBoundary(face)
    \/ DrawPort
    \/ Setup1
    \/ Setup2
    \/ Analyze
    \/ GetSolution
    \/ Finish

----------------------------------------------------------------------------
(* Complex numbers.  A complex number is [re, im] over the integers.       *)

Complex(re, im) == [re |-> re, im |-> im]

Abs(x) == IF x < 0 THEN 0 - x ELSE x

\* -z
CNeg(z) == Complex(0 - z.re, 0 - z.im)

\* z**2
CSquare(z) == Complex(z.re * z.re - z.im * z.im, 2 * z.re * z.im)

\* k*z for a real k
CScale(k, z) == Complex(k * z.re, k * z.im)

\* z/k for a real k that divides both parts
CDivReal(z, k) == Complex(z.re \div k, z.im \div k)

\* z - 1j*eps for the machine epsilon np.finfo(float).eps.  The epsilon is
\* kept apart, as a count of epsilons next to the imaginary part: it is
\* smaller than every difference of two values of the model, and decides
\* the sign of an imaginary part that is zero.
MinusJEps(z) == [re |-> z.re, im |-> z.im, eps |-> 0 - 1]

\* -w for a number with an epsilon
NegEps(w) == [re |-> 0 - w.re, im |-> 0 - w.im, eps |-> 0 - w.eps]

\* the sign of the imaginary part of a number with an epsilon; a zero
\* without an epsilon is +0
SignIm(w) ==
    IF w.im > 0 THEN 1 ELSE IF w.im < 0 THEN 0 - 1 ELSE IF w.eps < 0 THEN 0 - 1 ELSE 1

\* the square roots of w among the numbers of the model (the epsilon moves
\* a root by less than the model tells apart)
Roots(w) ==
    LET m == Abs(w.re) + Abs(w.im)
    IN  {r \in [re : (0 - m)..m, im : (0 - m)..m] : CSquare(r) = Complex(w.re, w.im)}

\* np.sqrt of a complex number: the root in the right half plane; of the two
\* roots on the imaginary axis, the one whose imaginary part has the sign of
\* the imaginary part of w
CSqrt(w) ==
    CHOOSE r \in Roots(w) : r.re > 0 \/ (r.re = 0 /\ r.im * SignIm(w) >= 0)

----------------------------------------------------------------------------
(* The conversions of __init__, with frequencies in units of c0/(2*pi), so  *)
(* that 2*np.pi*f/self.c0 is f                                              *)

\* self.gamma2ereff = lambda x,f: -(self.c0/2/np.pi/f*x)**2
gamma2ereff(x, f) == CNeg(CSquare(CDivReal(x, f)))

\* self.ereff2gamma = lambda x,f: 2*np.pi*f/self.c0*np.sqrt(-(x-1j*eps))
ereff2gamma(x, f) == CScale(f, CSqrt(NegEps(MinusJEps(x))))

----------------------------------------------------------------------------
(* LLmodel of the example.  Its value is a quotient of complex numbers,    *)
(* kept exact as [re, im, den]: (re + 1j*im)/den.                           *)

\* a variant without the damping term of the denominator
LLDenominator_undamped(f, f0, gamma_) == Complex(f0 * f0 - f * f, 0)

\* f0**2 + 2j*f*gamma - f**2
LLDenominator(f, f0, gamma_) == Complex(f0 * f0 - f * f, 2 * f * gamma_)

\* f0**2 + 1j*f*gamma
LLNumerator(f, f0, gamma_) == Complex(f0 * f0, f * gamma_)

\* a/b for complex a and b: a*conj(b)/|b|**2; the division by zero raises
CDiv(a, b) ==
    IF b.re = 0 /\ b.im = 0
    THEN [error |-> "ZeroDivisionError", re |-> 0, im |-> 0, den |-> 0]
    ELSE [error |-> "none",
          re |-> a.re * b.re + a.im * b.im,
          im |-> a.im * b.re - a.re * b.im,
          den |-> b.re * b.re + b.im * b.im]

\* murf + (muri - murf)*(f0**2 + 1j*f*gamma)/(f0**2 + 2j*f*gamma - f**2)
LLmodel(f, muri, murf, f0, gamma_) ==
    LET q == CDiv(LLNumerator(f, f0, gamma_), LLDenominator(f, f0, gamma_))
    IN  IF q.error # "none" THEN q
        ELSE [error |-> "none",
              re |-> murf * q.den + (muri - murf) * q.re,
              im |-> (muri - murf) * q.im,
              den |-> q.den]

----------------------------------------------------------------------------
(* __init__ and the inputs of the model *)

\* the longest array given for f or for a material parameter
MaxLen == 2

Scalar(x) == [scalar |-> TRUE, v |-> <<x>>]

Array(s) == [scalar |-> FALSE, v |-> s]

\* the array x, x+1, ... of n elements
Ramp(x, n) == [i \in 1..n |-> x + i - 1]

\* frequencies in Hz: two whose 0.8-fold is 1000 and 1200, and a negative one
FreqVals == {0 - 1250, 1250, 1500}

\* f: a number or a 1d-array
FreqInputs ==
    {Scalar(x) : x \in FreqVals}
    \cup {Array(s) : s \in UNION {[1..n -> FreqVals] : n \in 1..MaxLen}}

\* a material parameter: a number or a 1d-array
MatInputs(x) == {Scalar(x)} \cup {Array(Ramp(x, n)) : n \in 1..MaxLen}

\* layer records as the caller writes them: the copper layer of the example
\* (which has no 'er'), a gold layer with every key, a layer that leaves all
\* to the defaults, one with a negative roughness, one with an unknown
\* distribution, one with a negative conductivity; and an entry that is no
\* dict
CopperLayer ==
    [sigma |-> "58e6", mur |-> "0.999991", Rrms |-> "1e-6", boundary_loc |-> "0",
     distribution |-> "norm"]

GoldLayer ==
    [sigma |-> "41e6", mur |-> "0.99996", er |-> "1", Rrms |-> "50e-9",
     boundary_loc |-> "0", distribution |-> "norm"]

RoughLayer == [Rrms |-> "-1"]

OddLayer == [sigma |-> "14.5e6", distribution |-> "bogus"]

NegativeSigmaLayer == [sigma |-> "-1"]

LayerInputs ==
    {[type |-> "dict", d |-> CopperLayer], [type |-> "dict", d |-> GoldLayer],
     [type |-> "dict", d |-> EmptyDict], [type |-> "dict", d |-> RoughLayer],
     [type |-> "dict", d |-> OddLayer], [type |-> "dict", d |-> NegativeSigmaLayer],
     [type |-> "tuple", d |-> EmptyDict]}

\* the faces of the example: the ground and the top of the line have a list
\* each, the side of the line is given the list of the top, the bottom none
ExampleFaces ==
    [gnd_top |-> 1, sig_top |-> 2, sig_bottom |-> NoneRef, sig_side |-> 2]

\* __init__(f, w, h, t, wgnd, er, etand, mur, mutand, ...): the arrays of the
\* object.  An array that cannot be broadcast to f raises, and no object is
\* made.
Constructed(f, er, etand, mur, mutand) ==
    /\ \A x \in {er, etand, mur, mutand} : Broadcastable(x.v, ones_like(atleast_1d(f)))
    /\ self_f = atleast_1d(f)
    /\ self_er = TimesOnes(er, self_f)
    /\ self_etand = TimesOnes(etand, self_f)
    /\ self_mur = TimesOnes(mur, self_f)
    /\ self_mutand = TimesOnes(mutand, self_f)

\* the conversions and LLmodel not in use
ConvRest ==
    [x |-> Complex(0, 0), f |-> 1, ereff |-> Complex(0, 0), back |-> Complex(0, 0),
     pc |-> "rest"]

LLRest ==
    [f |-> 0, muri |-> 1, murf |-> 1, f0 |-> 1, gamma |-> 1,
     denominator |-> Complex(0, 0),
     out |-> [error |-> "none", re |-> 0, im |-> 0, den |-> 1], pc |-> "rest"]

NoFormula == conv = ConvRest /\ ll = LLRest

\* the state of a new object before run_simulation is called
Fresh ==
    /\ NoFormula
    /\ gamma = Unset
    /\ Z0 = Unset
    /\ Zs_sig_top = Unset
    /\ pc = "idle"
    /\ closs_aedt_at_finish = FALSE
    /\ solution_freq_arg = [given |-> FALSE, v |-> 0]
    /\ solution_freq = 0
    /\ log = <<>>
    /\ engine = <<>>
    /\ filled = {}
    /\ passed = {}
    /\ raised = "none"
    /\ result = "none"
    /\ runs = 0
    /\ reported = {}
    /\ required = required_keys
    /\ defaults = default_values
    /\ stack = <<>>
    /\ heap0 = heap
    /\ heap1 = heap
    /\ returned = <<>>
    /\ ncalls = 0

\* the heap holds the layers h of the addresses in use and empty dicts else
HeapOf(h, used) ==
    /\ heap = [a \in Addr |-> IF a \in used THEN h[a].d ELSE EmptyDict]
    /\ objtype = [a \in Addr |-> IF a \in used THEN h[a].type ELSE "dict"]

PlainDielectric ==
    Constructed(Array(<<1250, 1500>>), Scalar(3), Scalar(0), Scalar(1), Scalar(0))

\* every stack of layers: the ground has a list, and the top and the side of
\* the line share a second list of the same dicts in the opposite order
InitStacks ==
    /\ PlainDielectric
    /\ use_pec = FALSE
    /\ conductor = ExampleFaces
    /\ \E s \in {s \in Stacks : InOrder(s)} :
          /\ lists = [l \in ListId |-> IF l = 1 THEN s ELSE Reverse(s)]
          /\ \E h \in [Addr -> LayerInputs] : HeapOf(h, Range(s))
    /\ Fresh

\* every choice of faces: each face has no list or one of two lists, the
\* second of which holds a dict of the first
InitFaces ==
    /\ PlainDielectric
    /\ use_pec \in BOOLEAN
    /\ conductor \in [Faces -> {NoneRef} \cup ListId]
    /\ lists = [l \in ListId |-> IF l = 1 THEN <<1>> ELSE <<2, 1>>]
    /\ \E second \in {EmptyDict, RoughLayer} :
          HeapOf([a \in Addr |-> [type |-> "dict", d |-> IF a = 1 THEN CopperLayer ELSE second]],
                 {1, 2})
    /\ Fresh

\* every shape of f and of the material parameters
InitArrays ==
    /\ \E f \in FreqInputs, er \in MatInputs(3), etand \in MatInputs(0),
         mur \in MatInputs(1), mutand \in MatInputs(0) :
          Constructed(f, er, etand, mur, mutand)
    /\ use_pec = FALSE
    /\ conductor = ExampleFaces
    /\ lists = [l \in ListId |-> <<1>>]
    /\ HeapOf([a \in Addr |-> [type |-> "dict", d |-> CopperLayer]], {1})
    /\ Fresh

Init ==
    /\ \/ InitStacks
       \/ InitFaces
       \/ InitArrays
    /\ budget = 1

Spec == Init /\ [][Next]_vars

\* how often the caller calls run_simulation on one object
MaxRuns == 2

\* one object run again and again: the faces of the example, whose lists
\* hold no layer or one layer of any kind
InitRuns ==
    /\ PlainDielectric
    /\ use_pec = FALSE
    /\ conductor = ExampleFaces
    /\ \E s \in {s \in Stacks : InOrder(s) /\ Len(s) <= 1} :
          /\ lists = [l \in ListId |-> s]
          /\ \E h \in [Addr -> LayerInputs] : HeapOf(h, Range(s))
    /\ Fresh
    /\ budget = MaxRuns

SpecRuns == InitRuns /\ [][Next]_vars

----------------------------------------------------------------------------
(* Default filling on its own: the inputs of fill_missing_vals are drawn    *)
(* from bounded sets and the function is applied once and then again to    *)
(* what it returned.                                                        *)

\* the keys and values of the caller's records in this specification
FillKeySet == {"sigma", "er"}
FillVals == {"None", "0", "False"}
FillRecords == UNION {[S -> FillVals] : S \in SUBSET FillKeySet}

\* required-key lists: the prefixes of run_simulation's list, a list that
\* names a key twice and one in another order
RequiredKeyLists ==
    {SubSeq(required_keys, 1, n) : n \in 0..Len(required_keys)}
    \cup {<<"er", "sigma", "er">>, <<"distribution", "er">>}

\* default tables: run_simulation's, the same without the entries for 'er'
\* and 'sigma', and one that has a value for 'er'
DefaultTables ==
    {default_values,
     [k \in DOMAIN default_values \ {"er", "sigma"} |-> default_values[k]],
     [default_values EXCEPT !.er = "1"]}

\* no object is in use: the variables of the object and of its runs at rest
Idle ==
    /\ PlainDielectric
    /\ use_pec = FALSE
    /\ conductor = [face \in Faces |-> NoneRef]
    /\ lists = [l \in ListId |-> <<>>]
    /\ gamma = Unset
    /\ Z0 = Unset
    /\ Zs_sig_top = Unset
    /\ pc = "idle"
    /\ closs_aedt_at_finish = FALSE
    /\ solution_freq_arg = [given |-> FALSE, v |-> 0]
    /\ solution_freq = 0
    /\ log = <<>>
    /\ engine = <<>>
    /\ filled = {}
    /\ passed = {}
    /\ raised = "none"
    /\ result = "none"
    /\ budget = 0
    /\ runs = 0
    /\ reported = {}

InitFill ==
    /\ required \in RequiredKeyLists
    /\ defaults \in DefaultTables
    /\ stack \in {s \in Stacks : InOrder(s)}
    /\ objtype = [a \in Addr |-> "dict"]
    /\ heap \in [Addr -> FillRecords]
    /\ \A a \in Addr \ Range(stack) : heap[a] = EmptyDict
    /\ heap0 = heap
    /\ heap1 = heap
    /\ returned = <<>>
    /\ ncalls = 0
    /\ Idle
    /\ NoFormula

\* normalize once, and then normalize the result
Normalize ==
    /\ ncalls < 2
    /\ LET r == fill_missing_vals(required, defaults, heap, objtype,
                                  IF ncalls = 0 THEN stack ELSE returned)
       IN  /\ heap' = r.heap
           /\ returned' = r.result
           /\ heap1' = IF ncalls = 0 THEN r.heap ELSE heap1
    /\ ncalls' = ncalls + 1
    /\ UNCHANGED <<objtype, required, defaults, stack, heap0, objvars, runvars, purevars>>

NextFill == Normalize

SpecFill == InitFill /\ [][NextFill]_vars

----------------------------------------------------------------------------
(* The conversions on their own: a propagation constant is turned into an  *)
(* effective permittivity and back.                                         *)

\* the largest real part and the largest imaginary part of gamma, in units
\* of 2*pi*f/c0
MaxGamma == 3

\* the largest frequency given to the conversions and to LLmodel
MaxFreq == 3

\* default filling not in use
NoFill ==
    /\ required = required_keys
    /\ defaults = default_values
    /\ stack = <<>>
    /\ objtype = [a \in Addr |-> "dict"]
    /\ heap = [a \in Addr |-> EmptyDict]
    /\ heap0 = heap
    /\ heap1 = heap
    /\ returned = <<>>
    /\ ncalls = 0

\* every gamma with a real part that is not negative, at every frequency
InitConv ==
    /\ \E f \in 1..MaxFreq, re \in 0..MaxGamma, im \in (0 - MaxGamma)..MaxGamma :
          conv = [ConvRest EXCEPT !.x = CScale(f, Complex(re, im)), !.f = f, !.pc = "gamma"]
    /\ ll = LLRest
    /\ NoFill
    /\ Idle

\* ereff = gamma2ereff(gamma, f)
ToEreff ==
    /\ conv.pc = "gamma"
    /\ conv' = [conv EXCEPT !.ereff = gamma2ereff(conv.x, conv.f), !.pc = "ereff"]
    /\ UNCHANGED <<ll, objvars, runvars, fillvars>>

\* ereff2gamma(ereff, f)
ToGamma ==
    /\ conv.pc = "ereff"
    /\ conv' = [conv EXCEPT !.back = ereff2gamma(conv.ereff, conv.f), !.pc = "back"]
    /\ UNCHANGED <<ll, objvars, runvars, fillvars>>

NextConv == ToEreff \/ ToGamma

SpecConv == InitConv /\ [][NextConv]_vars

----------------------------------------------------------------------------
(* LLmodel on its own *)

\* the largest damping
MaxDamping == 2

\* the permeabilities muri and murf: those of the example, and one between
MuVals == {1, 2, 20}

InitLL ==
    /\ \E f \in 0..MaxFreq, f0 \in 1..MaxFreq, g \in 1..MaxDamping, muri \in MuVals,
         murf \in MuVals :
          ll = [LLRest EXCEPT !.f = f, !.f0 = f0, !.gamma = g, !.muri = muri,
                              !.murf = murf, !.pc = "call"]
    /\ conv = ConvRest
    /\ NoFill
    /\ Idle

\* LLmodel(f, muri, murf, f0, gamma)
CallLLmodel ==
    /\ ll.pc = "call"
    /\ ll' = [ll EXCEPT !.denominator = LLDenominator(ll.f, ll.f0, ll.gamma),
                        !.out = LLmodel(ll.f, ll.muri, ll.murf, ll.f0, ll.gamma),
                        !.pc = "done"]
    /\ UNCHANGED <<conv, objvars, runvars, fillvars>>

NextLL == CallLLmodel

SpecLL == InitLL /\ [][NextLL]_vars

----------------------------------------------------------------------------
(* Default filling (SpecFill) *)

\* the layers of the stack as values: what a caller reading the list sees
LayersOf(hp, material_properties) ==
    [i \in 1..Len(material_properties) |-> hp[material_properties[i]]]

\* the value default_values.get(key, None) is to give
TableValue(table, key) == IF key \in DOMAIN table THEN table[key] ELSE "None"

\* C1: default filling does not mutate its input: after fill_missing_vals
\* every caller-owned layer record holds the keys and values it held before
\* the call.
C1_InputNotMutated == ncalls >= 1 => heap = heap0

\* C2: default filling is idempotent: applying fill_missing_vals to what it
\* returned changes no key and no value, normalize(normalize(x)) = normalize(x).
C2_Idempotent ==
    ncalls = 2 =>
        /\ heap = heap1
        /\ LayersOf(heap, returned) = LayersOf(heap1, stack)

\* the second call was made on a stack the first call had to fill
C2_Witness == ncalls = 2 /\ heap1 # heap0 /\ Len(stack) = MaxLayers

\* C3: after fill_missing_vals every layer of the result holds every
\* required key, and a key the layer was missing holds the default table's
\* value for it, None when the table has no entry; for run_simulation's table
\* these are sigma=58e6, mur=1, Rrms=0, boundary_loc=0, distribution='norm'
\* and None for 'er'.
C3_MissingGetDefaults ==
    ncalls >= 1 =>
        \A i \in DOMAIN returned : \A k \in DOMAIN required :
            LET key == required[k]
                before == heap0[stack[i]]
                after == heap[returned[i]]
            IN  /\ key \in DOMAIN after
                /\ key \notin DOMAIN before =>
                      /\ after[key] = TableValue(defaults, key)
                      /\ defaults = default_values =>
                            after[key] = [sigma |-> "58e6", mur |-> "1", er |-> "None",
                                          Rrms |-> "0", boundary_loc |-> "0",
                                          distribution |-> "norm"][key]

\* a layer without 'sigma' and 'er' was filled from run_simulation's table
C3_Witness ==
    /\ ncalls = 1
    /\ required = required_keys
    /\ defaults = default_values
    /\ \E i \in DOMAIN stack : heap0[stack[i]] = EmptyDict

\* C4: fill_missing_vals leaves existing data untouched: every key a layer
\* has keeps its value (also a value that is None, 0 or False), no key is
\* removed, and the number and the order of the layers are unchanged.
C4_ExistingUntouched ==
    ncalls >= 1 =>
        /\ returned = stack
        /\ \A a \in Addr : \A key \in DOMAIN heap0[a] :
              key \in DOMAIN heap[a] /\ heap[a][key] = heap0[a][key]

\* a layer whose 'sigma' is None and whose 'er' is 0 was filled from a table
\* that has other values for both keys
C4_Witness ==
    /\ ncalls = 1
    /\ "sigma" \in Range(required) /\ "er" \in Range(required)
    /\ "sigma" \in DOMAIN defaults
    /\ \E i \in DOMAIN stack :
          heap0[stack[i]] = [sigma |-> "None", er |-> "0"]
    /\ \E i \in DOMAIN stack :
          heap0[stack[i]] = [sigma |-> "False"]

----------------------------------------------------------------------------
(* run_simulation (Spec, SpecRuns) *)

\* the calls of the log that created the dataset name
Created(name) == {i \in DOMAIN log : log[i].op = "create_dataset" /\ log[i].name = name}

\* the calls of the log that assigned an impedance boundary to a sheet
AssignedTo(sheet) ==
    {i \in DOMAIN log : log[i].op = "assign_impedance_to_sheet" /\ log[i].sheet = sheet}

\* the run has ended, with a result or with an exception
Ended == pc = "returned"

\* the call has returned a result to its caller
Returned == Ended /\ result \in {"True", "False", "hfss"}

\* the run got to the port: no step of the four blocks or before them raised
ReachedPort == pc = "port" \/ \E i \in DOMAIN log : log[i].op = "create_polyline"

\* C5: an error detected while the surface-impedance data are computed
\* (by default filling or by surface_impedance) is not caught: it reaches
\* the caller of run_simulation as an error and no result is returned in its
\* place.
C5_ErrorsReachCaller == (Ended /\ raised = "validation") => result = "exception"

\* C6: what run_simulation reports tells a failure of a solver call from a
\* validation error of the core's inputs: for either value of
\* closs_aedt_at_finish the two never give the same reported outcome.
C6_SolveFailedDistinct ==
    \A a, b \in reported :
        (a.raised = "solver" /\ b.raised = "validation" /\ a.closs = b.closs)
            => a.result # b.result

\* what C7 says of a face: one dataset of Re[Zs] and one of Im[Zs] under the
\* names of the face, both over the frequency grid, and one impedance
\* boundary on the sheet of the face that refers to the two by name
C7_FaceDone(real, imag, sheet) ==
    /\ Cardinality(Created(real)) = 1
    /\ Cardinality(Created(imag)) = 1
    /\ \A i \in Created(real) :
          /\ log[i].x = self_f
          /\ \A k \in DOMAIN log[i].y : log[i].y[k] = [freq |-> self_f[k], of |-> "Re Zs"]
    /\ \A i \in Created(imag) :
          /\ log[i].x = self_f
          /\ \A k \in DOMAIN log[i].y : log[i].y[k] = [freq |-> self_f[k], of |-> "Im Zs"]
    /\ Cardinality(AssignedTo(sheet)) = 1
    /\ \A i \in AssignedTo(sheet) : log[i].re = real /\ log[i].im = imag

C7_Faces ==
    /\ (conductor["gnd_top"] # NoneRef /\ ~use_pec) =>
          C7_FaceDone("Zs_gnd_top_real", "Zs_gnd_top_imag", "gnd.top_face_y")
    /\ (conductor["sig_top"] # NoneRef /\ ~use_pec) =>
          C7_FaceDone("Zs_sig_top_real", "Zs_sig_top_imag", "sig.top_face_y")
    /\ (conductor["sig_bottom"] # NoneRef /\ ~use_pec) =>
          C7_FaceDone("Zs_sig_bottom_real", "Zs_sig_bottom_imag", "sig.bottom_face_y")
    /\ (conductor["sig_side"] # NoneRef /\ ~use_pec) =>
          C7_FaceDone("Zs_sig_side_real", "Zs_sig_side_imag", "sig.top_face_x")

C8_PecFacesUntouched ==
    /\ \A face \in Faces :
          (use_pec \/ conductor[face] = NoneRef) =>
              /\ face \notin filled
              /\ \A i \in DOMAIN engine : engine[i].face # face
              /\ Created(RealName[face]) = {} /\ Created(ImagName[face]) = {}
              /\ AssignedTo(Sheet[face]) = {}
    /\ use_pec => (heap = heap0 /\ engine = <<>>)

\* a run with use_pec has ended with True though faces have stacks, and
\* (the other case) a face without a stack was passed over while another
\* face was filled
C8_Witness ==
    /\ Ended /\ result = "True"
    /\ \/ use_pec /\ \E face \in Faces : conductor[face] # NoneRef
       \/ ~use_pec /\ filled # {} /\ \E face \in Faces : conductor[face] = NoneRef

\* C9: every per-frequency array the program builds or hands to the solver
\* (er, etand, mur, mutand, the datasets of Re[Zs] and Im[Zs], Z0 and gamma)
\* has the length of the frequency grid self.f and is ordered as it is, for
\* scalar and array-valued material inputs and for a scalar frequency.
C9_ArraysAligned ==
    /\ \A a \in {self_er, self_etand, self_mur, self_mutand} : Len(a) = Len(self_f)
    /\ \A i \in DOMAIN log :
          log[i].op = "create_dataset" =>
              Len(log[i].x) = Len(self_f) /\ Len(log[i].y) = Len(self_f)
    /\ \A a \in {gamma, Z0} :
          a.set => /\ Len(a.val) = Len(self_f)
                   /\ \A k \in DOMAIN a.val : a.val[k].freq = self_f[k]

\* C10: every layer stack handed to surface_impedance holds at least one
\* conductor layer: an empty conductor list is never passed on as the
\* half-space layer alone.
C10_HasConductorLayer == \A i \in DOMAIN engine : Len(engine[i].layers) >= 1

\* the half-space C11 names for a face: the substrate for the ground and the
\* bottom of the line, air for the top and the side of the line
C11_HalfSpaceOf(face) ==
    IF face \in {"gnd_top", "sig_bottom"}
    THEN [mur |-> ComplexLossy(self_mur, self_mutand), er |-> ComplexLossy(self_er, self_etand)]
    ELSE [mur |-> <<[re |-> 1, im |-> 0]>>, er |-> <<[re |-> 1, im |-> 0]>>]

\* C11: the material list handed to surface_impedance for a face is the
\* adjoining half-space (the substrate dielectric for gnd_top and sig_bottom,
\* air for sig_top and sig_side) followed by the normalized layers of the
\* face's stack in the caller's order, and Rrms, boundary_loc and
\* distribution have one entry per layer in that order.
C11_HalfSpaceThenLayers ==
    \A i \in DOMAIN engine :
        LET e == engine[i]
            given == lists[conductor[e.face]]
        IN  /\ e.halfspace = C11_HalfSpaceOf(e.face)
            /\ Len(e.layers) = Len(given)
            /\ Len(e.Rrms) = Len(given)
            /\ Len(e.boundary_loc) = Len(given)
            /\ Len(e.distribution) = Len(given)
            /\ \A k \in DOMAIN given :
                  /\ e.layers[k] = heap[given[k]]
                  /\ \A j \in DOMAIN required_keys : required_keys[j] \in DOMAIN e.layers[k]
                  /\ \A key \in DOMAIN heap0[given[k]] :
                        e.layers[k][key] = heap0[given[k]][key]
                  /\ e.Rrms[k] = e.layers[k]["Rrms"]
                  /\ e.boundary_loc[k] = e.layers[k]["boundary_loc"]
                  /\ e.distribution[k] = e.layers[k]["distribution"]

\* all four faces were handed on, one of them with two layers that differ
C11_Witness ==
    /\ {engine[i].face : i \in DOMAIN engine} = Faces
    /\ \E i \in DOMAIN engine :
          Len(engine[i].layers) = 2 /\ engine[i].layers[1] # engine[i].layers[2]


\* C12: the round trip of the conversions: for every frequency f > 0 and
\* every gamma whose real part is not negative (a purely imaginary gamma with
\* a negative imaginary part too), ereff2gamma(gamma2ereff(gamma, f), f) is
\* gamma.
C12_RoundTrip == conv.pc = "back" => conv.back = conv.x

C14_ErrorsDue(e) ==
    {c \in {"ConfigurationError", "ValueError", "UnsupportedOptionError"} :
        \/ /\ c = "ConfigurationError"
           /\ \E a \in {e.Rrms, e.boundary_loc, e.distribution} : Len(a) # Len(e.layers)
        \/ /\ c = "ValueError"
           /\ \/ \E k \in DOMAIN e.Rrms : e.Rrms[k] = "-1"
              \/ \E k \in DOMAIN e.layers : e.layers[k]["sigma"] = "-1"
              \/ \E k \in DOMAIN e.f : e.f[k] < 0
        \/ /\ c = "UnsupportedOptionError"
           /\ \E k \in DOMAIN e.distribution : e.distribution[k] # "norm"}

\* C14: a stack out of the domain is rejected: a negative Rrms, a negative
\* sigma or a negative frequency with an error of the class of ValueError,
\* layer arrays of different lengths with a ConfigurationError, an unknown
\* distribution tag with an UnsupportedOptionError; and no Zs dataset and no
\* impedance boundary is created from that stack.
C14_OutOfDomainRejected ==
    \A i \in DOMAIN engine :
        C14_ErrorsDue(engine[i]) # {} =>
            /\ engine[i].error \in C14_ErrorsDue(engine[i])
            /\ \A face \in Faces :
                  conductor[face] = conductor[engine[i].face] =>
                      /\ Created(RealName[face]) = {}
                      /\ Created(ImagName[face]) = {}
                      /\ AssignedTo(Sheet[face]) = {}

\* the stack of one face was accepted and its datasets created, and the
\* stack of the next face, which has a negative Rrms, was rejected
C14_Witness ==
    /\ Ended
    /\ Len(engine) = 2
    /\ engine[1].error = "none" /\ Created(RealName[engine[1].face]) # {}
    /\ engine[2].error = "ValueError"
    /\ \E k \in DOMAIN engine[2].Rrms : engine[2].Rrms[k] = "-1"

\* the calls of the log that made the solver call op, and those that returned
Made(op) == {i \in DOMAIN log : log[i].op = op}

Done(op) == {i \in Made(op) : log[i].ok}

\* every step of the try block through the reading of Z0 and gamma completed
ReadSolution == \E i \in Done("data_imag") : log[i].name = "Zo(P1)"

\* C15: with closs_aedt_at_finish=True every call of run_simulation that
\* returns has performed close_project, delete_project and close_desktop
\* once each, in that order, before it returned; it returns True exactly when
\* every step through the reading of Z0 and gamma completed without an
\* exception, and False when a step inside the try block raised.
C15_CleanupOnce ==
    (Returned /\ closs_aedt_at_finish) =>
        /\ \A op \in {"close_project", "delete_project", "close_desktop"} :
              Cardinality(Made(op)) = 1 /\ Cardinality(Done(op)) = 1
        /\ \A i \in Done("close_project"), j \in Done("delete_project"),
              k \in Done("close_desktop") : i < j /\ j < k /\ k = Len(log)
        /\ result = "True" <=> ReadSolution
        /\ raised # "none" => result = "False"

\* C16: with closs_aedt_at_finish=False run_simulation closes and deletes
\* nothing and returns the hfss handle, when the simulation succeeded as well
\* as when an exception was raised inside the try block: what it returns does
\* not tell whether Z0 and gamma were produced.
C16_KeepsSession ==
    /\ (Ended /\ ~closs_aedt_at_finish /\ Done("Hfss") # {}) =>
          /\ result = "hfss"
          /\ \A op \in {"close_project", "delete_project", "close_desktop"} : Made(op) = {}
    /\ \A r \in reported : (~r.closs /\ r.raised # "before try") => r.result = "hfss"

\* of two calls with closs_aedt_at_finish=False one succeeded and one raised
\* inside the try block, and both returned hfss
C16_Witness ==
    \E a, b \in reported :
        /\ ~a.closs /\ ~b.closs
        /\ a.raised = "none" /\ b.raised \in {"solver", "validation"}
        /\ a.result = "hfss" /\ b.result = "hfss"

\* the run in which an attribute was written
RunOf(a) == a.val[1].run

\* C17: gamma and Z0 are written only after setup2.analyze and
\* get_solution_data have completed, and both together: they are of the same
\* run; when an earlier step raises both are as they were before the call.
C17_WrittenTogether ==
    /\ gamma.set <=> Z0.set
    /\ (gamma.set /\ Z0.set) => RunOf(gamma) = RunOf(Z0)
    /\ \A a \in {gamma, Z0} :
          (a.set /\ RunOf(a) = runs) =>
              /\ \E i \in Done("analyze") : log[i].name = "setup2"
              /\ Done("get_solution_data") # {}

\* the steps of the simulation, each with the name it is made on
C18_Steps ==
    {<<log[i].op, log[i].name>> : i \in DOMAIN log} \
        {<<"close_project", "">>, <<"delete_project", "">>, <<"close_desktop", "">>}

\* the calls of a step
C18_At(op, name) == {i \in DOMAIN log : log[i].op = op /\ log[i].name = name}

\* C18: the solver steps of a run happen in a fixed order and none is
\* repeated: the datasets and the impedance boundaries come before the port
\* and the setups, setup1.analyze is called once and completes before setup2
\* is created and linked to its mesh, setup2.analyze is called once, after
\* the sweep was defined, the solution is read only after setup2.analyze,
\* and no step is made again after a failure.
C18_FixedOrder ==
    /\ \A st \in C18_Steps : Cardinality(C18_At(st[1], st[2])) = 1
    /\ \A i \in Made("create_dataset") \cup Made("assign_impedance_to_sheet") :
          \A j \in Made("create_polyline") \cup Made("wave_port") \cup Made("create_setup") :
              i < j
    /\ \A j \in C18_At("create_setup", "setup2") \cup Made("add_mesh_link") :
          \E i \in C18_At("analyze", "setup1") : log[i].ok /\ i < j
    /\ \A j \in C18_At("analyze", "setup2") :
          \E i \in Done("create_single_point_sweep") : i < j
    /\ \A j \in Made("get_solution_data") \cup Made("data_real") \cup Made("data_imag") :
          \E i \in C18_At("analyze", "setup2") : log[i].ok /\ i < j
    /\ \A i \in DOMAIN log :
          ~log[i].ok =>
              \A j \in (i + 1)..Len(log) :
                  log[j].op \in {"close_project", "delete_project", "close_desktop"}

\* a run with a stack on every face has made every step and ended with True
C18_Witness ==
    /\ Ended /\ result = "True" /\ ~use_pec
    /\ \A face \in Faces : conductor[face] # NoneRef /\ AssignedTo(Sheet[face]) # {}
    /\ ReadSolution

\* C19: a conductor list used for two faces, or used again in a later run
\* (of this object or of another), gives surface_impedance the same layer
\* values every time: the filling done for one use does not change what
\* another use of the stack computes.  The same holds of two lists of the
\* same dicts.
C19_SharedStackSameValues ==
    \A a, b \in passed :
        (a.list = b.list \/ lists[a.list] = lists[b.list]) =>
            /\ a.layers = b.layers
            /\ a.Rrms = b.Rrms
            /\ a.boundary_loc = b.boundary_loc
            /\ a.distribution = b.distribution

\* in a second run the list shared by the top and the side of the line, whose
\* layer the first run had to fill, was handed on for both faces again
C19_Witness ==
    /\ runs = 2
    /\ heap # heap0
    /\ conductor["sig_top"] = conductor["sig_side"]
    /\ \E i, j \in DOMAIN engine :
          /\ engine[i].face = "sig_top" /\ engine[j].face = "sig_side"
          /\ Len(engine[i].layers) >= 1

\* what C20 says of solution_freq and of the older harness
C20_Default ==
    pc # "idle" =>
        /\ solution_freq_arg.given => solution_freq = solution_freq_arg.v
        /\ ~solution_freq_arg.given =>
              /\ \E k \in DOMAIN self_f :
                    /\ \A j \in DOMAIN self_f : self_f[j] <= self_f[k]
                    /\ 10 * solution_freq = 8 * self_f[k]
              /\ solution_freq = solution_freq_2d(self_f, solution_freq_arg)
                    <=> \A j \in DOMAIN self_f : self_f[j] <= self_f[Len(self_f)]
        /\ \A i \in Made("enable_adaptive_setup_single") : log[i].x = <<solution_freq>>

\* C20 as stated: without the argument, solution_freq is 0.8 times the
\* largest frequency of the grid, whatever its order; a value the caller
\* gives is used unchanged; setup1 and setup2 are given the same value; the
\* older harness, which takes 0.8 times the last element, agrees exactly
\* when the last element is the largest.
C20_SameSolutionFreq ==
    /\ C20_Default
    /\ \A i \in C18_At("create_setup", "setup2") : log[i].x = <<solution_freq>>

\* C20 as amended: the same, but setup2 is given the value as a text with six
\* decimals of a GHz, that is, the whole number of kHz nearest to it.
C20_Setup2RoundedToKHz ==
    /\ C20_Default
    /\ \A i \in C18_At("create_setup", "setup2") :
          /\ Len(log[i].x) = 1
          /\ log[i].x[1] % 1000 = 0
          /\ 2 * Abs(log[i].x[1] - solution_freq) <= 1000

\* a run without the argument over a grid whose largest element is not the
\* last has created setup2, whose frequency differs from that of setup1
C20_Witness ==
    /\ ~solution_freq_arg.given
    /\ self_f = <<1500, 1250>>
    /\ \E i \in C18_At("create_setup", "setup2") : log[i].ok /\ log[i].x # <<solution_freq>>

=============================================================================
